---- MODULE Spec2Model ----
(***************************************************************************)
(* simplerelic: per-endpoint request metrics (metrics.go), the reporter    *)
(* that flushes them on a timer (reporter.go) and the gin middleware that  *)
(* feeds them (simplerelic.go).                                            *)
(*                                                                         *)
(* Go maps are modelled as functions with a growing DOMAIN, `range` over a *)
(* map as a choice of any not yet visited key, float32 values as reduced   *)
(* fractions <<n, d>> (exact for the small integers used here), url paths  *)
(* as sequences of segments and matcher functions as path prefixes.        *)
(***************************************************************************)
EXTENDS Integers, Sequences, FiniteSets, TLC

\* ------------------------------------------------------------------ bounds
MaxUpdates == 3
MaxCollects == 2
MaxAdds == 2
MaxRequests == 1
MaxTicks == 2
MaxLoops == 2

\* --------------------------------------------------------------- constants
unknownEndpoint == "other"
defaultGUID == "com.github.domenp.SimpleRelic"

\* what os.Hostname and os.Getpid return in this process
osHostname == "host"
osGetpid == 4242

Kinds == {"Req", "Err", "RT"}
\* two goroutines serving requests
Threads == {1, 2}
\* 0 is a goroutine calling ValueMap directly, 1..MaxLoops the goroutines
\* created by Reporter.Start
Collectors == 0..MaxLoops
Loops == 1..MaxLoops

\* the endpoints registered: "log" for the paths under /log and "logx" for
\* the paths under /log/x, which "log" accepts too
Registrations == {<<"log", <<"log">>>>, <<"logx", <<"log", "x">>>>}
Paths == {<<"log">>, <<"log", "x">>, <<"unknown">>}
\* one path under /log and one matching nothing
HandlerPaths == {<<"log">>, <<"unknown">>}
Statuses == {399, 400}
Elapsed == {1, 2}

NamePrefix(kind) ==
    CASE kind = "Req" -> "Component/ReqPerEndpoint/"
      [] kind = "Err" -> "Component/ErrorRatePerEndpoint/"
      [] kind = "RT" -> "Component/ResponseTimePerEndpoint/"

AllEPNamePrefix(kind) ==
    CASE kind = "Req" -> "Component/Req/overall"
      [] kind = "Err" -> "Component/ErrorRate/overall"
      [] kind = "RT" -> "Component/ResponseTime/overall"

MetricUnit(kind) ==
    CASE kind = "Req" -> "[requests]"
      [] kind = "Err" -> "[percent]"
      [] kind = "RT" -> "[ms]"

MetricName(kind, endpoint) == NamePrefix(kind) \o endpoint \o MetricUnit(kind)

OverallName(kind) == AllEPNamePrefix(kind) \o MetricUnit(kind)

\* ----------------------------------------------------------------- helpers
EmptyMap == [x \in {} |-> 0]

\* m[k] of a Go map: the zero value when the key is absent
Get(m, k) == IF k \in DOMAIN m THEN m[k] ELSE 0

\* m[k] = v of a Go map
Put(m, k, v) == [x \in DOMAIN m \cup {k} |-> IF x = k THEN v ELSE m[x]]

\* m[k] of a map of slices: nil (empty) when the key is absent
GetSlice(m, k) == IF k \in DOMAIN m THEN m[k] ELSE <<>>

RECURSIVE SumMap(_)
SumMap(m) ==
    IF DOMAIN m = {} THEN 0
    ELSE LET k == CHOOSE x \in DOMAIN m : TRUE
         IN m[k] + SumMap([x \in DOMAIN m \ {k} |-> m[x]])

RECURSIVE SumSeq(_)
SumSeq(s) == IF s = <<>> THEN 0 ELSE Head(s) + SumSeq(Tail(s))

RECURSIVE Gcd(_, _)
Gcd(a, b) == IF b = 0 THEN a ELSE Gcd(b, a % b)

\* float32(n) of a small integer
Float(n) == <<n, 1>>

\* a / b in float32, b > 0: the quotient as a reduced fraction
Div(a, b) == LET g == Gcd(a, b) IN IF a = 0 THEN <<0, 1>> ELSE <<a \div g, b \div g>>

\* strings.HasPrefix on paths
HasPrefix(path, prefix) ==
    /\ Len(prefix) <= Len(path)
    /\ SubSeq(path, 1, Len(prefix)) = prefix

\* the lock owner of a request thread and of a collector goroutine
ThreadId(t) == t
CollectorId(c) == 0 - (c + 1)

\* --------------------------------------------------------------- variables
VARIABLES
    Guid,               \* the package variable Guid
    DefaultEndpoints,   \* name -> matcher, shared by every metric (m.endpoints)
    regOrder,           \* history: names in order of first registration
    adds,               \* AddDefaultEndpoint calls made
    built,              \* the accumulators constructed so far
    reqCount,           \* kind -> (name -> int)
    errorCount,         \* name -> int (ErrorRatePerEndpoint)
    responseTime,       \* name -> sequence of samples (ResponseTimePerEndpoint)
    lock,               \* kind -> owner of StandardMetric.lock, 0 when free
    th,                 \* request thread -> its position and locals; got and rec
                        \* are history: the metrics of reporter.metrics whose
                        \* Update was called for, and recorded, the request
    sc,                 \* collector -> its position and locals; seen and returned
                        \* are history: the updates a ValueMap collected and the
                        \* maps the ValueMap calls of a tick returned
    SimpleReporter,     \* the default reporter, NilReporter before it is set
    loop,               \* loop goroutine -> "Idle", "Running", "Crashed", "Stopped"
    net,                \* transmissions: attempts made, under way and failed, and
                        \* stop requests
    hist                \* history: update calls and what ValueMap returned

vars ==
    <<Guid, DefaultEndpoints, regOrder, adds, built, reqCount, errorCount, responseTime,
      lock, th, sc, SimpleReporter, loop, net, hist>>

setupVars == <<DefaultEndpoints, regOrder, adds, Guid>>
accVars == <<reqCount, errorCount, responseTime>>

\* a nil *Reporter
NilReporter ==
    [isNil |-> TRUE, licence |-> "", host |-> "", pid |-> 0, guid |-> "", metrics |-> <<>>]

\* reqData before prepareReqData made it
NoPayload == [host |-> "", pid |-> 0, guid |-> "", metrics |-> EmptyMap]

\* a float32 that is not a number
NaN == <<0, 0>>

\* history: the arguments and the results of the last InitDefaultReporter call
NoCall ==
    [called |-> FALSE, licence |-> "", hostOK |-> FALSE, endpoints |-> 0, guid |-> "",
     newNil |-> TRUE, newErr |-> "nil", retNil |-> TRUE, err |-> "nil"]

IdleThread ==
    [pc |-> "idle", kind |-> "none", mi |-> 0, path |-> <<>>, status |-> 0,
     hasStart |-> FALSE, isTime |-> FALSE, ms |-> 0, name |-> "", tmp |-> 0,
     got |-> {}, rec |-> {}]

IdleCollector ==
    [pc |-> "idle", kind |-> "none", mi |-> 0, todo |-> {}, metrics |-> EmptyMap,
     allEPReq |-> 0, allEPErrors |-> 0, allEPResponseTime |-> 0,
     seen |-> EmptyMap, ret |-> EmptyMap, retKind |-> "none",
     payload |-> NoPayload, json |-> "none", quit |-> FALSE, ticks |-> 0,
     fault |-> "none", returned |-> <<>>]

Init ==
    /\ Guid = defaultGUID
    /\ DefaultEndpoints = EmptyMap
    /\ regOrder = <<>>
    /\ adds = 0
    /\ built = {}
    /\ reqCount = [k \in Kinds |-> EmptyMap]
    /\ errorCount = EmptyMap
    /\ responseTime = EmptyMap
    /\ lock = [k \in Kinds |-> 0]
    /\ th = [t \in Threads |-> IdleThread]
    /\ sc = [c \in Collectors |-> IdleCollector]
    /\ SimpleReporter = NilReporter
    /\ loop = [g \in Loops |-> "Idle"]
    /\ net = [attempts |-> 0, inFlight |-> 0, failures |-> 0, stopWanted |-> FALSE]
    /\ hist = [calls |-> 0, collects |-> 0, requests |-> 0,
               applied |-> [k \in Kinds |-> 0], reported |-> 0,
               log |-> [k \in Kinds |-> EmptyMap],
               init |-> NoCall]

\* the application assigns the exported package variable Guid
Guids == {defaultGUID, "com.example.plugin"}

SetGuid(guid) ==
    /\ Guid' = guid
    /\ UNCHANGED <<DefaultEndpoints, regOrder, adds, built, accVars, lock, th, sc,
                   SimpleReporter, loop, net, hist>>

\* ------------------------------------------------------------ registration
\* AddDefaultEndpoint: DefaultEndpoints[name] = matcherFunc. The metrics keep
\* a reference to this map, so an endpoint added after they were constructed
\* is met by endpointFromURL all the same.
AddDefaultEndpoint(name, matcherFunc) ==
    /\ adds < MaxAdds
    /\ DefaultEndpoints' = Put(DefaultEndpoints, name, matcherFunc)
    /\ regOrder' = IF name \in DOMAIN DefaultEndpoints THEN regOrder
                   ELSE Append(regOrder, name)
    /\ adds' = adds + 1
    /\ UNCHANGED <<Guid, built, accVars, lock, th, sc, SimpleReporter, loop, net, hist>>

\* ------------------------------------------------------------ constructors
\* mutant: the entry of "other" forgotten
initReqCountNoSentinel(endpoints) == [e \in DOMAIN endpoints |-> 0]

\* StandardMetric.initReqCount: a zero for every endpoint of the table and
\* for "other"
initReqCount(endpoints) ==
    [e \in DOMAIN endpoints \cup {unknownEndpoint} |-> 0]

\* mutant: the sample list of "other" forgotten
initResponseTimeNoSentinel(endpoints) == [e \in DOMAIN endpoints |-> <<0>>]

\* make([]float32, 1) for every endpoint of the table and for "other"
initResponseTime(endpoints) ==
    [e \in DOMAIN endpoints \cup {unknownEndpoint} |-> <<0>>]

\* the effect of constructing the accumulators ks over DefaultEndpoints
Construct(ks) ==
    /\ reqCount' = [k \in Kinds |->
                      IF k \in ks THEN initReqCount(DefaultEndpoints) ELSE reqCount[k]]
    /\ errorCount' = IF "Err" \in ks THEN initReqCount(DefaultEndpoints) ELSE errorCount
    /\ responseTime' = IF "RT" \in ks THEN initResponseTime(DefaultEndpoints)
                       ELSE responseTime
    /\ built' = built \cup ks

NewReqPerEndpoint ==
    /\ "Req" \notin built
    /\ Construct({"Req"})
    /\ UNCHANGED <<setupVars, lock, th, sc, SimpleReporter, loop, net, hist>>

NewErrorRatePerEndpoint ==
    /\ "Err" \notin built
    /\ Construct({"Err"})
    /\ UNCHANGED <<setupVars, lock, th, sc, SimpleReporter, loop, net, hist>>

NewResponseTimePerEndpoint ==
    /\ "RT" \notin built
    /\ Construct({"RT"})
    /\ UNCHANGED <<setupVars, lock, th, sc, SimpleReporter, loop, net, hist>>

\* ---------------------------------------------------------- classification
\* the names whose matcher accepts urlPath
Matching(endpoints, urlPath) ==
    {n \in DOMAIN endpoints : HasPrefix(urlPath, endpoints[n])}

\* mutant: the fallback to "other" forgotten, so the zero string is returned
endpointFromURLNoFallback(endpoints, urlPath) ==
    IF Matching(endpoints, urlPath) = {} THEN {""}
    ELSE Matching(endpoints, urlPath)

\* StandardMetric.endpointFromURL: the values the call can return. The table
\* is a Go map and `range` visits it in an unspecified order, so the first
\* accepting matcher met can be any accepting matcher.
endpointFromURL(endpoints, urlPath) ==
    IF Matching(endpoints, urlPath) = {} THEN {unknownEndpoint}
    ELSE Matching(endpoints, urlPath)

\* ---------------------------------------------------------------- contexts
\* the gin contexts a direct caller passes to Update: each metric is driven
\* over the fields it reads
Contexts(kind) ==
    [path : IF kind = "RT" THEN HandlerPaths ELSE Paths,
     status : IF kind = "Err" THEN Statuses ELSE {399},
     hasStart : IF kind = "RT" THEN BOOLEAN ELSE {TRUE},
     isTime : {TRUE}]

EntryPc(kind) == IF kind = "RT" THEN "getStart" ELSE "classify"

\* where a thread goes when an Update call returns: back to the direct caller,
\* or to the next metric of onReqEndHandler's loop
ReturnFrom(r) ==
    IF r.mi = 0 THEN IdleThread
    ELSE [IdleThread EXCEPT !.pc = "dispatch", !.mi = r.mi + 1, !.path = r.path,
                            !.status = r.status, !.hasStart = r.hasStart,
                            !.isTime = r.isTime, !.got = r.got, !.rec = r.rec]

\* history: one more event in a bag of events
BagAdd(b, e) == Put(b, e, Get(b, e) + 1)

\* m.Update(c) called directly on one metric, as the tests do
CallUpdate(t, kind) ==
    /\ th[t].pc = "idle"
    /\ kind \in built
    /\ hist.calls < MaxUpdates
    /\ \E c \in Contexts(kind) :
         th' = [th EXCEPT ![t] =
                  [IdleThread EXCEPT !.pc = EntryPc(kind), !.kind = kind,
                                     !.path = c.path, !.status = c.status,
                                     !.hasStart = c.hasStart, !.isTime = c.isTime]]
    /\ hist' = [hist EXCEPT !.calls = @ + 1]
    /\ UNCHANGED <<setupVars, built, accVars, lock, sc, SimpleReporter, loop, net>>

\* ------------------------------------------------------------------ Update
\* mutant: Lock() that excludes nobody
NoLock(kind) == TRUE

\* sync.Mutex: Lock() returns only when nobody holds the lock
CanLock(kind) == lock[kind] = 0

\* mutant: > 400 in place of >= 400
IsErrorAbove(status) == status > 400

\* c.Writer.Status() >= 400
IsError(status) == status >= 400

\* mutant: the error of c.Get not looked at
StartNeverMissing(hasStart) == FALSE

\* startTime, err := c.Get("reqStartTime"); err != nil
StartMissing(hasStart) == ~hasStart

\* ResponseTimePerEndpoint.Update: c.Get("reqStartTime"); without it the call
\* logs and returns; with it startTime.(time.Time) panics on a value that is
\* not a time.Time, and otherwise the elapsed time is taken
GetStart(t) ==
    /\ th[t].pc = "getStart"
    /\ IF StartMissing(th[t].hasStart)
       THEN th' = [th EXCEPT ![t] = ReturnFrom(th[t])]
       ELSE IF ~th[t].isTime
       THEN th' = [th EXCEPT ![t].pc = "panicked"]
       ELSE \E ms \in Elapsed : th' = [th EXCEPT ![t].ms = ms, ![t].pc = "classify"]
    /\ UNCHANGED <<setupVars, built, accVars, lock, sc, SimpleReporter, loop, net, hist>>

\* endpointName := m.endpointFromURL(c.Request.URL.Path)
Classify(t) ==
    /\ th[t].pc = "classify"
    /\ \E n \in endpointFromURL(DefaultEndpoints, th[t].path) :
         th' = [th EXCEPT ![t].name = n, ![t].pc = "lock"]
    /\ UNCHANGED <<setupVars, built, accVars, lock, sc, SimpleReporter, loop, net, hist>>

\* the first statement of the critical section of each Update
FirstStep(kind, status) ==
    IF kind = "Err" /\ IsError(status) THEN "eload" ELSE "load"

\* m.lock.Lock()
Lock(t) ==
    /\ th[t].pc = "lock"
    /\ CanLock(th[t].kind)
    /\ lock' = [lock EXCEPT ![th[t].kind] = ThreadId(t)]
    /\ th' = [th EXCEPT ![t].pc = FirstStep(th[t].kind, th[t].status)]
    /\ UNCHANGED <<setupVars, built, accVars, sc, SimpleReporter, loop, net, hist>>

\* m.errorCount[endpointName]++ : the read
ELoad(t) ==
    /\ th[t].pc = "eload"
    /\ th' = [th EXCEPT ![t].tmp = Get(errorCount, th[t].name), ![t].pc = "estore"]
    /\ UNCHANGED <<setupVars, built, accVars, lock, sc, SimpleReporter, loop, net, hist>>

\* m.errorCount[endpointName]++ : the write
EStore(t) ==
    /\ th[t].pc = "estore"
    /\ errorCount' = Put(errorCount, th[t].name, th[t].tmp + 1)
    /\ th' = [th EXCEPT ![t].tmp = 0, ![t].pc = "load"]
    /\ UNCHANGED <<setupVars, built, reqCount, responseTime, lock, sc,
                   SimpleReporter, loop, net, hist>>

\* m.reqCount[endpointName]++ : the read
Load(t) ==
    /\ th[t].pc = "load"
    /\ th' = [th EXCEPT ![t].tmp = Get(reqCount[th[t].kind], th[t].name),
                        ![t].pc = "store"]
    /\ UNCHANGED <<setupVars, built, accVars, lock, sc, SimpleReporter, loop, net, hist>>

\* mutant: the old value written back
NotIncremented(old) == old

\* the value m.reqCount[endpointName]++ writes back
Incremented(old) == old + 1

\* m.reqCount[endpointName]++ : the write
Store(t) ==
    /\ th[t].pc = "store"
    /\ reqCount' = [reqCount EXCEPT ![th[t].kind] =
                      Put(@, th[t].name, Incremented(th[t].tmp))]
    /\ th' = [th EXCEPT ![t].tmp = 0,
                        ![t].pc = IF th[t].kind = "RT" THEN "append" ELSE "unlock"]
    /\ UNCHANGED <<setupVars, built, errorCount, responseTime, lock, sc,
                   SimpleReporter, loop, net, hist>>

\* m.responseTime[endpointName] = append(m.responseTime[endpointName], elapsed)
AppendSample(t) ==
    /\ th[t].pc = "append"
    /\ responseTime' = Put(responseTime, th[t].name,
                           Append(GetSlice(responseTime, th[t].name), th[t].ms))
    /\ th' = [th EXCEPT ![t].pc = "unlock"]
    /\ UNCHANGED <<setupVars, built, reqCount, errorCount, lock, sc,
                   SimpleReporter, loop, net, hist>>

\* m.lock.Unlock() and the return of Update
Unlock(t) ==
    /\ th[t].pc = "unlock"
    /\ lock' = [lock EXCEPT ![th[t].kind] = 0]
    /\ hist' = [hist EXCEPT
                  !.applied[th[t].kind] = @ + 1,
                  !.log[th[t].kind] =
                      BagAdd(@, [name |-> th[t].name, status |-> th[t].status,
                                 ms |-> th[t].ms])]
    /\ th' = [th EXCEPT ![t] = ReturnFrom([th[t] EXCEPT !.rec = @ \cup {th[t].mi}])]
    /\ UNCHANGED <<setupVars, built, accVars, sc, SimpleReporter, loop, net>>

\* ---------------------------------------------------------------- ValueMap
\* m.ValueMap() called directly on one metric, as the tests do
CallValueMap(c, kind) ==
    /\ c = 0
    /\ sc[c].pc = "idle"
    /\ kind \in built
    /\ hist.collects < MaxCollects
    /\ sc' = [sc EXCEPT ![c] = [IdleCollector EXCEPT !.pc = "vm_lock", !.kind = kind]]
    /\ hist' = [hist EXCEPT !.collects = @ + 1]
    /\ UNCHANGED <<setupVars, built, accVars, lock, th, SimpleReporter, loop, net>>

\* the map each ValueMap ranges over
RangeKeys(kind) ==
    CASE kind = "Req" -> DOMAIN reqCount["Req"]
      [] kind = "Err" -> DOMAIN errorCount
      [] kind = "RT" -> DOMAIN responseTime

\* metrics := make(map[string]float32); m.lock.Lock(); the sums start at zero
VMLock(c) ==
    /\ sc[c].pc = "vm_lock"
    /\ CanLock(sc[c].kind)
    /\ lock' = [lock EXCEPT ![sc[c].kind] = CollectorId(c)]
    /\ sc' = [sc EXCEPT ![c].pc = "vm_range",
                        ![c].todo = RangeKeys(sc[c].kind),
                        ![c].metrics = EmptyMap,
                        ![c].allEPReq = 0,
                        ![c].allEPErrors = 0,
                        ![c].allEPResponseTime = 0,
                        ![c].seen = hist.log[sc[c].kind]]
    /\ hist' = [hist EXCEPT !.log[sc[c].kind] = EmptyMap]
    /\ UNCHANGED <<setupVars, built, accVars, th, SimpleReporter, loop, net>>

\* mutant: the counter left as it is
ReqNotReset(value) == value

\* the value ReqPerEndpoint.ValueMap leaves in reqCount[endpoint]
ReqReset(value) == 0

\* ReqPerEndpoint.ValueMap: one iteration of the range over m.reqCount
ReqValueMapIter(c) ==
    /\ sc[c].pc = "vm_range"
    /\ sc[c].kind = "Req"
    /\ \E endpoint \in sc[c].todo :
         LET value == reqCount["Req"][endpoint] IN
         /\ sc' = [sc EXCEPT
                     ![c].metrics = Put(@, MetricName("Req", endpoint), Float(value)),
                     ![c].allEPReq = @ + value,
                     ![c].todo = @ \ {endpoint}]
         /\ reqCount' = [reqCount EXCEPT !["Req"] = Put(@, endpoint, ReqReset(value))]
    /\ UNCHANGED <<setupVars, built, errorCount, responseTime, lock, th,
                   SimpleReporter, loop, net, hist>>

\* metrics[m.allEPNamePrefix+m.metricUnit] = float32(allEPReq)
ReqOverall(allEPReq) == Float(allEPReq)

ReqValueMapOverall(c) ==
    /\ sc[c].pc = "vm_range"
    /\ sc[c].kind = "Req"
    /\ sc[c].todo = {}
    /\ sc' = [sc EXCEPT ![c].metrics = Put(@, OverallName("Req"), ReqOverall(sc[c].allEPReq)),
                        ![c].pc = "vm_unlock"]
    /\ UNCHANGED <<setupVars, built, accVars, lock, th, SimpleReporter, loop, net, hist>>

\* the error rate of one endpoint: 0. unless requests were counted
ErrRate(errors, requests) ==
    IF requests > 0 THEN Div(errors, requests) ELSE Float(0)

\* ErrorRatePerEndpoint.ValueMap: one iteration of the range over m.errorCount
ErrValueMapIter(c) ==
    /\ sc[c].pc = "vm_range"
    /\ sc[c].kind = "Err"
    /\ \E endpoint \in sc[c].todo :
         LET errors == errorCount[endpoint]
             requests == Get(reqCount["Err"], endpoint)
         IN
         /\ sc' = [sc EXCEPT
                     ![c].metrics = Put(@, MetricName("Err", endpoint),
                                        ErrRate(errors, requests)),
                     ![c].allEPErrors = @ + errors,
                     ![c].allEPReq = @ + requests,
                     ![c].todo = @ \ {endpoint}]
         /\ errorCount' = Put(errorCount, endpoint, 0)
         /\ reqCount' = [reqCount EXCEPT !["Err"] = Put(@, endpoint, 0)]
    /\ UNCHANGED <<setupVars, built, responseTime, lock, th, SimpleReporter, loop,
                   net, hist>>

\* mutant: the integers divided before the conversion to float32
ErrOverallIntDiv(allEPErrors, allEPReq) ==
    IF allEPReq > 0 THEN Float(allEPErrors \div allEPReq) ELSE Float(0)

\* the overall error rate: 0. unless requests were counted
ErrOverall(allEPErrors, allEPReq) ==
    IF allEPReq > 0 THEN Div(allEPErrors, allEPReq) ELSE Float(0)

ErrValueMapOverall(c) ==
    /\ sc[c].pc = "vm_range"
    /\ sc[c].kind = "Err"
    /\ sc[c].todo = {}
    /\ sc' = [sc EXCEPT
                ![c].metrics = Put(@, OverallName("Err"),
                                   ErrOverall(sc[c].allEPErrors, sc[c].allEPReq)),
                ![c].pc = "vm_unlock"]
    /\ UNCHANGED <<setupVars, built, accVars, lock, th, SimpleReporter, loop, net, hist>>

\* mutant: the sum divided as an integer before the conversion to float32
RTAverageIntDiv(sum, requests) ==
    IF requests > 0 THEN Float(sum \div requests) ELSE Float(0)

\* the average of one endpoint: 0. unless requests were counted
RTAverage(sum, requests) ==
    IF requests > 0 THEN Div(sum, requests) ELSE Float(0)

\* mutant: the sample list reset to an empty one
ResetSamplesEmpty(values) == <<>>

\* m.responseTime[endpoint] = make([]float32, 1): one zero, whatever was there
ResetSamples(values) == <<0>>

\* ResponseTimePerEndpoint.ValueMap: one iteration of the range over
\* m.responseTime
RTValueMapIter(c) ==
    /\ sc[c].pc = "vm_range"
    /\ sc[c].kind = "RT"
    /\ \E endpoint \in sc[c].todo :
         LET sum == SumSeq(responseTime[endpoint])
             requests == Get(reqCount["RT"], endpoint)
         IN
         /\ sc' = [sc EXCEPT
                     ![c].metrics = Put(@, MetricName("RT", endpoint),
                                        RTAverage(sum, requests)),
                     ![c].allEPResponseTime = @ + sum,
                     ![c].allEPReq = @ + requests,
                     ![c].todo = @ \ {endpoint}]
         /\ reqCount' = [reqCount EXCEPT !["RT"] = Put(@, endpoint, 0)]
         /\ responseTime' = Put(responseTime, endpoint,
                                ResetSamples(responseTime[endpoint]))
    /\ UNCHANGED <<setupVars, built, errorCount, lock, th, SimpleReporter, loop,
                   net, hist>>

\* the overall average: 0. unless requests were counted
RTOverall(allEPResponseTime, allEPReq) ==
    IF allEPReq > 0 THEN Div(allEPResponseTime, allEPReq) ELSE Float(0)

RTValueMapOverall(c) ==
    /\ sc[c].pc = "vm_range"
    /\ sc[c].kind = "RT"
    /\ sc[c].todo = {}
    /\ sc' = [sc EXCEPT
                ![c].metrics = Put(@, OverallName("RT"),
                                   RTOverall(sc[c].allEPResponseTime, sc[c].allEPReq)),
                ![c].pc = "vm_unlock"]
    /\ UNCHANGED <<setupVars, built, accVars, lock, th, SimpleReporter, loop, net, hist>>

\* history: the sum of the per-endpoint values of a map ReqPerEndpoint.ValueMap
\* returned
PerEndpointSum(metrics) ==
    SumMap([k \in DOMAIN metrics \ {OverallName("Req")} |-> metrics[k][1]])

\* mutant: the lock kept
StillLocked(l, kind) == l

\* m.lock.Unlock() at the end of ValueMap
Unlocked(l, kind) == [l EXCEPT ![kind] = 0]

\* m.lock.Unlock() and the return of ValueMap: to the direct caller, or into
\* sendMetrics
VMUnlock(c) ==
    /\ sc[c].pc = "vm_unlock"
    /\ lock' = Unlocked(lock, sc[c].kind)
    /\ sc' = [sc EXCEPT ![c].pc = IF c = 0 THEN "idle" ELSE "sm_merge",
                        ![c].ret = IF c = 0 THEN EmptyMap ELSE sc[c].metrics,
                        ![c].retKind = IF c = 0 THEN "none" ELSE sc[c].kind,
                        ![c].kind = IF c = 0 THEN "none" ELSE sc[c].kind,
                        ![c].seen = EmptyMap,
                        ![c].metrics = EmptyMap,
                        ![c].allEPReq = 0,
                        ![c].allEPErrors = 0,
                        ![c].allEPResponseTime = 0]
    /\ hist' = [hist EXCEPT
                  !.reported = IF sc[c].kind = "Req"
                               THEN @ + PerEndpointSum(sc[c].metrics) ELSE @]
    /\ UNCHANGED <<setupVars, built, accVars, th, SimpleReporter, loop, net>>

\* --------------------------------------------------------- accumulator runs
\* One accumulator driven directly, as metrics_test.go drives it: endpoints
\* are registered, the metric is constructed, request threads call Update and
\* one goroutine calls ValueMap.
UpdateCommon(t) ==
    \/ Classify(t)
    \/ Lock(t)
    \/ Load(t)
    \/ Store(t)
    \/ Unlock(t)

\* the endpoints registered before the metric is constructed
Register ==
    /\ built = {}
    /\ \E r \in Registrations : AddDefaultEndpoint(r[1], r[2])

NextReq ==
    \/ Register
    \/ NewReqPerEndpoint
    \/ \E t \in Threads : CallUpdate(t, "Req") \/ UpdateCommon(t)
    \/ CallValueMap(0, "Req")
    \/ VMLock(0)
    \/ ReqValueMapIter(0)
    \/ ReqValueMapOverall(0)
    \/ VMUnlock(0)

SpecReq == Init /\ [][NextReq]_vars

NextErr ==
    \/ Register
    \/ NewErrorRatePerEndpoint
    \/ \E t \in Threads : CallUpdate(t, "Err") \/ UpdateCommon(t) \/ ELoad(t) \/ EStore(t)
    \/ CallValueMap(0, "Err")
    \/ VMLock(0)
    \/ ErrValueMapIter(0)
    \/ ErrValueMapOverall(0)
    \/ VMUnlock(0)

SpecErr == Init /\ [][NextErr]_vars

NextRT ==
    \/ Register
    \/ NewResponseTimePerEndpoint
    \/ \E t \in Threads :
         CallUpdate(t, "RT") \/ GetStart(t) \/ UpdateCommon(t) \/ AppendSample(t)
    \/ CallValueMap(0, "RT")
    \/ VMLock(0)
    \/ RTValueMapIter(0)
    \/ RTValueMapOverall(0)
    \/ VMUnlock(0)

SpecRT == Init /\ [][NextRT]_vars

\* an endpoint registered after the metric was constructed, while no Update
\* reads the table (the table is a plain map, written without a lock)
RegisterLate ==
    /\ built # {}
    /\ \A t \in Threads : th[t].pc = "idle"
    /\ \E r \in Registrations : AddDefaultEndpoint(r[1], r[2])

\* ErrorRatePerEndpoint driven by one request goroutine and one collecting
\* goroutine, with endpoints registered before and after its construction.
NextLate ==
    \/ Register
    \/ NewErrorRatePerEndpoint
    \/ RegisterLate
    \/ CallUpdate(1, "Err")
    \/ UpdateCommon(1)
    \/ ELoad(1)
    \/ EStore(1)
    \/ CallValueMap(0, "Err")
    \/ VMLock(0)
    \/ ErrValueMapIter(0)
    \/ ErrValueMapOverall(0)
    \/ VMUnlock(0)

SpecLate == Init /\ [][NextLate]_vars

\* Any one of the three accumulators driven by a single goroutine that calls
\* Update and ValueMap one after the other, as metrics_test.go does with
\* testPresence and checkIsCleared.
NewMetric ==
    /\ built = {}
    /\ \/ NewReqPerEndpoint
       \/ NewErrorRatePerEndpoint
       \/ NewResponseTimePerEndpoint

NextAcc ==
    \/ Register
    \/ NewMetric
    \/ \E kind \in Kinds : CallUpdate(1, kind)
    \/ GetStart(1)
    \/ UpdateCommon(1)
    \/ ELoad(1)
    \/ EStore(1)
    \/ AppendSample(1)
    \/ \E kind \in Kinds : CallValueMap(0, kind)
    \/ VMLock(0)
    \/ ReqValueMapIter(0)
    \/ ReqValueMapOverall(0)
    \/ ErrValueMapIter(0)
    \/ ErrValueMapOverall(0)
    \/ RTValueMapIter(0)
    \/ RTValueMapOverall(0)
    \/ VMUnlock(0)

SpecAcc == Init /\ [][NextAcc]_vars

\* ---------------------------------------------------------------- reporter
Licences == {"", "key"}
StandardMetrics == <<"Req", "Err", "RT">>

\* a metric of the application's own, added with AddMetric: the key it reports
\* and the maps its ValueMap can return (a float32 can be NaN, and nothing
\* keeps it from using a key of a standard metric)
CustomName == "Component/Custom[units]"
CustomMaps ==
    {(CustomName :> Float(1)), (CustomName :> NaN), (OverallName("Req") :> Float(7))}

AppNames == {"", "app"}
ErrNil == "nil"
ErrHostname == "Can not get hostname"
ErrLicence == "Please specify Newrelic licence"
ErrEndpoints == "No endpoints defined, at least one needed"

\* mutant: the licence not looked at
NewReporterAnyLicence(appName, licence, verbose, hostOK) ==
    IF ~hostOK THEN [reporter |-> NilReporter, err |-> ErrHostname]
    ELSE [reporter |-> [isNil |-> FALSE, licence |-> licence, host |-> osHostname,
                        pid |-> osGetpid, guid |-> Guid, metrics |-> <<>>],
          err |-> ErrNil]

\* NewReporter: the reporter and the error it returns; nil and an error when
\* os.Hostname fails, nil and an error for an empty licence
NewReporter(appName, licence, verbose, hostOK) ==
    IF ~hostOK THEN [reporter |-> NilReporter, err |-> ErrHostname]
    ELSE IF licence = "" THEN [reporter |-> NilReporter, err |-> ErrLicence]
    ELSE [reporter |-> [isNil |-> FALSE, licence |-> licence, host |-> osHostname,
                        pid |-> osGetpid, guid |-> Guid, metrics |-> <<>>],
          err |-> ErrNil]

\* mutant: an empty table accepted
TableNeverEmpty(endpoints) == FALSE

\* len(DefaultEndpoints) < 1
TableEmpty(endpoints) == Cardinality(DOMAIN endpoints) < 1

\* what InitDefaultReporter returns, given what NewReporter returned
InitResult(new, endpoints) ==
    IF new.err # ErrNil THEN [reporter |-> NilReporter, err |-> new.err]
    ELSE IF TableEmpty(endpoints) THEN [reporter |-> NilReporter, err |-> ErrEndpoints]
    ELSE [reporter |-> [new.reporter EXCEPT !.metrics = StandardMetrics], err |-> ErrNil]

\* InitDefaultReporter: SimpleReporter is assigned whatever NewReporter
\* returned; its error is returned; without endpoints an error is returned
\* after that assignment; otherwise the three standard metrics are
\* constructed and added
InitDefaultReporter(appName, licence, verbose, hostOK) ==
    LET new == NewReporter(appName, licence, verbose, hostOK)
        ret == InitResult(new, DefaultEndpoints)
    IN
    /\ built = {}
    /\ SimpleReporter' = IF ret.err = ErrNil THEN ret.reporter ELSE new.reporter
    /\ IF ret.err = ErrNil THEN Construct(Kinds) ELSE UNCHANGED <<built, accVars>>
    /\ hist' = [hist EXCEPT !.init =
                  [called |-> TRUE, licence |-> licence, hostOK |-> hostOK,
                   endpoints |-> Cardinality(DOMAIN DefaultEndpoints), guid |-> Guid,
                   newNil |-> new.reporter.isNil, newErr |-> new.err,
                   retNil |-> ret.reporter.isNil, err |-> ret.err]]
    /\ UNCHANGED <<setupVars, lock, th, sc, loop, net>>

Ready == ~SimpleReporter.isNil /\ Len(SimpleReporter.metrics) >= Len(StandardMetrics)

\* Reporter.AddMetric with a metric of the application's own, before traffic
\* and before Start
AddMetric ==
    /\ Ready
    /\ Len(SimpleReporter.metrics) = Len(StandardMetrics)
    /\ \A t \in Threads : th[t].pc \in {"idle", "panicked"}
    /\ \A g \in Loops : loop[g] = "Idle"
    /\ SimpleReporter' = [SimpleReporter EXCEPT !.metrics = Append(@, "Custom")]
    /\ UNCHANGED <<setupVars, built, accVars, lock, th, sc, loop, net, hist>>

\* Reporter.Start: the ticker, the quit channel nobody else can reach, and the
\* goroutine. Every call creates a goroutine, whatever ran before; g is the
\* next goroutine not yet created.
Start(g) ==
    /\ Ready
    /\ loop[g] = "Idle"
    /\ \A g2 \in Loops : g2 < g => loop[g2] # "Idle"
    /\ loop' = [loop EXCEPT ![g] = "Running"]
    /\ sc' = [sc EXCEPT ![g] = [IdleCollector EXCEPT !.pc = "select"]]
    /\ UNCHANGED <<setupVars, built, accVars, lock, th, SimpleReporter, net, hist>>

\* the one Start call of an application that starts its reporter once
StartOnce(g) ==
    /\ \A g2 \in Loops : loop[g2] = "Idle"
    /\ Start(g)

\* the application wants reporting to end. Reporter has no method for it and
\* Start keeps quit to itself, so nothing of the reporter changes.
StopRequest ==
    /\ \E g \in Loops : loop[g] = "Running"
    /\ ~net.stopWanted
    /\ net' = [net EXCEPT !.stopWanted = TRUE]
    /\ UNCHANGED <<setupVars, built, accVars, lock, th, sc, SimpleReporter, loop, hist>>

\* mutant: the guid read from the package variable
prepareReqDataPackageGuid(reporter) ==
    [host |-> reporter.host, pid |-> reporter.pid, guid |-> Guid, metrics |-> EmptyMap]

\* prepareReqData: the identity of the reporter and an empty metrics map
prepareReqData(reporter) ==
    [host |-> reporter.host, pid |-> reporter.pid, guid |-> reporter.guid,
     metrics |-> EmptyMap]

\* mutant: a tick taken wherever the goroutine is
TickAnywhere(pc) == pc \notin {"idle", "returned"}

\* a tick is received only by the select statement: the goroutine is back from
\* sendMetrics
TickReady(pc) == pc = "select"

\* the select of the loop: on quit the ticker is stopped and the goroutine
\* returns, on a tick sendMetrics starts with prepareReqData
LoopSelect(g) ==
    /\ TickReady(sc[g].pc)
    /\ IF sc[g].quit
       THEN /\ loop' = [loop EXCEPT ![g] = "Stopped"]
            /\ sc' = [sc EXCEPT ![g].pc = "returned"]
       ELSE /\ sc[g].ticks < MaxTicks
            /\ sc' = [sc EXCEPT ![g].pc = "sm_next", ![g].mi = 1,
                                ![g].ticks = @ + 1, ![g].fault = "none",
                                ![g].payload = prepareReqData(SimpleReporter)]
            /\ UNCHANGED loop
    /\ UNCHANGED <<setupVars, built, accVars, lock, th, SimpleReporter, net, hist>>

\* sendMetrics: the next metric of reporter.metrics, or json.Marshal after the
\* last one
SmNext(g) ==
    /\ sc[g].pc = "sm_next"
    /\ sc' = [sc EXCEPT
                ![g].pc = IF sc[g].mi > Len(SimpleReporter.metrics) THEN "sm_marshal"
                          ELSE IF SimpleReporter.metrics[sc[g].mi] = "Custom"
                               THEN "custom_vm" ELSE "vm_lock",
                ![g].kind = IF sc[g].mi > Len(SimpleReporter.metrics) THEN "none"
                            ELSE SimpleReporter.metrics[sc[g].mi]]
    /\ UNCHANGED <<setupVars, built, accVars, lock, th, SimpleReporter, loop, net, hist>>

\* the ValueMap of the application's metric returns a map
CustomValueMapReturn(g) ==
    /\ sc[g].pc = "custom_vm"
    /\ \E m \in CustomMaps :
         sc' = [sc EXCEPT ![g].pc = "sm_merge", ![g].ret = m, ![g].retKind = "Custom"]
    /\ UNCHANGED <<setupVars, built, accVars, lock, th, SimpleReporter, loop, net, hist>>

\* the ValueMap of the application's metric panics: the deferred recover of
\* the goroutine logs "SimpleRelic reporter crashed" and the goroutine ends
CustomValueMapPanic(g) ==
    /\ sc[g].pc = "custom_vm"
    /\ sc' = [sc EXCEPT ![g] = [IdleCollector EXCEPT !.pc = "returned",
                                                     !.ticks = sc[g].ticks,
                                                     !.fault = "panic"]]
    /\ loop' = [loop EXCEPT ![g] = "Crashed"]
    /\ UNCHANGED <<setupVars, built, accVars, lock, th, SimpleReporter, net, hist>>

\* mutant: a key already in the payload keeps its value
MergeFirstWins(into, from) ==
    [k \in DOMAIN into \cup DOMAIN from |-> IF k \in DOMAIN into THEN into[k] ELSE from[k]]

\* reqData.Components[0].Metrics[name] = value for every pair of the map
Merge(into, from) ==
    [k \in DOMAIN into \cup DOMAIN from |-> IF k \in DOMAIN from THEN from[k] ELSE into[k]]

SmMerge(g) ==
    /\ sc[g].pc = "sm_merge"
    /\ sc' = [sc EXCEPT ![g].pc = "sm_next", ![g].mi = @ + 1,
                        ![g].payload.metrics = Merge(@, sc[g].ret),
                        ![g].returned = Append(@, [kind |-> sc[g].retKind,
                                                   map |-> sc[g].ret]),
                        ![g].ret = EmptyMap, ![g].retKind = "none",
                        ![g].seen = EmptyMap, ![g].kind = "none"]
    /\ UNCHANGED <<setupVars, built, accVars, lock, th, SimpleReporter, loop, net, hist>>

\* json.Marshal fails on a NaN; the error is dropped and sendMetrics goes on
\* with a nil body
Marshal(payload) ==
    IF \E k \in DOMAIN payload.metrics : payload.metrics[k] = NaN THEN "nil" ELSE "json"

SmMarshal(g) ==
    /\ sc[g].pc = "sm_marshal"
    /\ sc' = [sc EXCEPT ![g].pc = "sm_send", ![g].json = Marshal(sc[g].payload),
                        ![g].fault = IF Marshal(sc[g].payload) = "nil" THEN "marshal" ELSE @,
                        ![g].payload = NoPayload, ![g].returned = <<>>]
    /\ UNCHANGED <<setupVars, built, accVars, lock, th, SimpleReporter, loop, net, hist>>

\* doRequest up to client.Do(req): the transmission is under way
SmSend(g) ==
    /\ sc[g].pc = "sm_send"
    /\ sc' = [sc EXCEPT ![g].pc = "sm_resp"]
    /\ net' = [net EXCEPT !.attempts = @ + 1, !.inFlight = @ + 1]
    /\ UNCHANGED <<setupVars, built, accVars, lock, th, SimpleReporter, loop, hist>>

Outcomes == {"ok", "non200", "neterr"}

\* client.Do returns: an error, or a response whose status is logged when it
\* is not 200; doRequest and sendMetrics return to the loop
SmResp(g) ==
    /\ sc[g].pc = "sm_resp"
    /\ \E outcome \in Outcomes :
         /\ sc' = [sc EXCEPT ![g].pc = "select", ![g].json = "none",
                          ![g].fault = IF outcome = "ok" THEN @ ELSE outcome]
         /\ net' = [net EXCEPT !.inFlight = @ - 1,
                               !.failures = IF outcome = "ok" THEN @ ELSE @ + 1]
    /\ UNCHANGED <<setupVars, built, accVars, lock, th, SimpleReporter, loop, hist>>

\* ----------------------------------------------------------------- handler
\* what the handlers run by c.Next() can leave under the key "reqStartTime" of
\* the context they share with the middleware: the time onReqStartHandler
\* set, nothing (c.Keys replaced), or a value of their own under that key
StartValues ==
    {[hasStart |-> TRUE, isTime |-> TRUE], [hasStart |-> FALSE, isTime |-> FALSE],
     [hasStart |-> TRUE, isTime |-> FALSE]}

\* Handler: onReqStartHandler sets "reqStartTime", c.Next() serves the request
\* and leaves one of the values of starts under that key
HandlerStartWith(t, starts) ==
    /\ th[t].pc = "idle"
    /\ hist.requests < MaxRequests
    /\ \E path \in HandlerPaths, status \in Statuses, start \in starts :
         th' = [th EXCEPT ![t] = [IdleThread EXCEPT !.pc = "reqEnd", !.path = path,
                                                    !.status = status,
                                                    !.hasStart = start.hasStart,
                                                    !.isTime = start.isTime]]
    /\ hist' = [hist EXCEPT !.requests = @ + 1]
    /\ UNCHANGED <<setupVars, built, accVars, lock, sc, SimpleReporter, loop, net>>

HandlerStart(t) == HandlerStartWith(t, StartValues)

\* a request whose handlers leave the start time of onReqStartHandler alone
HandlerStartTimed(t) == HandlerStartWith(t, {[hasStart |-> TRUE, isTime |-> TRUE]})

\* onReqEndHandler: range SimpleReporter.metrics, a nil dereference without
\* a reporter
OnReqEnd(t) ==
    /\ th[t].pc = "reqEnd"
    /\ th' = [th EXCEPT ![t].pc = IF SimpleReporter.isNil THEN "panicked" ELSE "dispatch",
                        ![t].mi = IF SimpleReporter.isNil THEN 0 ELSE 1]
    /\ UNCHANGED <<setupVars, built, accVars, lock, sc, SimpleReporter, loop, net, hist>>

\* v.Update(c) for the next metric, or the end of the loop; the Update of the
\* application's metric returns
Dispatch(t) ==
    /\ th[t].pc = "dispatch"
    /\ th' = [th EXCEPT ![t] =
                IF th[t].mi > Len(SimpleReporter.metrics) THEN IdleThread
                ELSE IF SimpleReporter.metrics[th[t].mi] = "Custom"
                     THEN [th[t] EXCEPT !.mi = @ + 1, !.got = @ \cup {th[t].mi},
                                        !.rec = @ \cup {th[t].mi}]
                     ELSE [th[t] EXCEPT !.kind = SimpleReporter.metrics[th[t].mi],
                                        !.pc = EntryPc(SimpleReporter.metrics[th[t].mi]),
                                        !.got = @ \cup {th[t].mi}]]
    /\ UNCHANGED <<setupVars, built, accVars, lock, sc, SimpleReporter, loop, net, hist>>

\* the Update of the application's metric panics: onReqEndHandler has no
\* recover, the panic leaves the loop and the handler
CustomUpdatePanic(t) ==
    /\ th[t].pc = "dispatch"
    /\ th[t].mi <= Len(SimpleReporter.metrics)
    /\ SimpleReporter.metrics[th[t].mi] = "Custom"
    /\ th' = [th EXCEPT ![t].pc = "panicked", ![t].got = @ \cup {th[t].mi}]
    /\ UNCHANGED <<setupVars, built, accVars, lock, sc, SimpleReporter, loop, net, hist>>

\* ------------------------------------------------------------- the program
Update(t) ==
    \/ GetStart(t)
    \/ UpdateCommon(t)
    \/ ELoad(t)
    \/ EStore(t)
    \/ AppendSample(t)

ValueMap(c) ==
    \/ VMLock(c)
    \/ ReqValueMapIter(c)
    \/ ReqValueMapOverall(c)
    \/ ErrValueMapIter(c)
    \/ ErrValueMapOverall(c)
    \/ RTValueMapIter(c)
    \/ RTValueMapOverall(c)
    \/ VMUnlock(c)

sendMetrics(g) ==
    \/ SmNext(g)
    \/ ValueMap(g)
    \/ CustomValueMapReturn(g)
    \/ CustomValueMapPanic(g)
    \/ SmMerge(g)
    \/ SmMarshal(g)
    \/ SmSend(g)
    \/ SmResp(g)

\* the goroutine serving requests through Handler
HandlerThreads == {1}

\* the registration of the tests, made once: "log" for the paths under /log
RegisterLog ==
    /\ built = {}
    /\ "log" \notin DOMAIN DefaultEndpoints
    /\ AddDefaultEndpoint("log", <<"log">>)

\* InitDefaultReporter with any arguments, os.Hostname failing or not
Initialise ==
    \E appName \in AppNames, licence \in Licences, verbose \in BOOLEAN, hostOK \in BOOLEAN :
        InitDefaultReporter(appName, licence, verbose, hostOK)

\* a request through the middleware
Serve(t) ==
    \/ HandlerStart(t)
    \/ OnReqEnd(t)
    \/ Dispatch(t)
    \/ CustomUpdatePanic(t)
    \/ Update(t)

Next ==
    \/ RegisterLog
    \/ Initialise
    \/ AddMetric
    \/ \E g \in Loops : StartOnce(g) \/ LoopSelect(g) \/ sendMetrics(g)
    \/ StopRequest
    \/ \E t \in HandlerThreads : Serve(t)

Spec == Init /\ [][Next]_vars

\* The start of the program and its request path without the reporter's loop:
\* endpoints are registered under any name with any matcher, the default
\* reporter is initialised, a metric of the application may be added, and
\* requests pass through Handler.
Matchers == {<<"log">>, <<"log", "x">>}

RegisterAny ==
    /\ built = {}
    /\ \E name \in {"log", "logx"}, matcherFunc \in Matchers :
         AddDefaultEndpoint(name, matcherFunc)

NextServe ==
    \/ RegisterAny
    \/ Initialise
    \/ AddMetric
    \/ \E t \in HandlerThreads : Serve(t)

SpecServe == Init /\ [][NextServe]_vars

\* The reporter's loop over the three standard metrics while requests are
\* served: "log" is registered, the default reporter is initialised and
\* started, the loop collects and transmits on every tick, and the requests
\* carry the start time onReqStartHandler set.
sendStandard(g) ==
    \/ SmNext(g)
    \/ ValueMap(g)
    \/ SmMerge(g)
    \/ SmMarshal(g)
    \/ SmSend(g)
    \/ SmResp(g)

ServeTimed(t) ==
    \/ HandlerStartTimed(t)
    \/ OnReqEnd(t)
    \/ Dispatch(t)
    \/ Update(t)

NextLoop ==
    \/ RegisterLog
    \/ Initialise
    \/ \E g \in Loops : StartOnce(g) \/ LoopSelect(g) \/ sendStandard(g)
    \/ \E t \in HandlerThreads : ServeTimed(t)

SpecLoop == Init /\ [][NextLoop]_vars

\* The identity of the reporter: the application assigns Guid at any time,
\* initialises and starts the default reporter, and the loop builds a payload
\* on every tick.
NextIdent ==
    \/ \E guid \in Guids : SetGuid(guid)
    \/ RegisterLog
    \/ Initialise
    \/ \E g \in Loops : StartOnce(g) \/ LoopSelect(g) \/ sendStandard(g)

SpecIdent == Init /\ [][NextIdent]_vars

\* Start called on the default reporter as often as there are goroutines in
\* the model, with nothing else going on.
NextStarts ==
    \/ RegisterLog
    \/ Initialise
    \/ \E g \in Loops : Start(g) \/ LoopSelect(g) \/ sendStandard(g)

SpecStarts == Init /\ [][NextStarts]_vars

\* a request served before the reporter is started
ServeEarly(t) == (\A g \in Loops : loop[g] = "Idle") /\ ServeTimed(t)

\* The payload of a tick: the default reporter with a metric of the
\* application added after the three standard ones, started once after the
\* requests were served.
NextPayload ==
    \/ RegisterLog
    \/ Initialise
    \/ AddMetric
    \/ \E g \in Loops : StartOnce(g) \/ LoopSelect(g) \/ sendMetrics(g)
    \/ \E t \in HandlerThreads : ServeEarly(t)

SpecPayload == Init /\ [][NextPayload]_vars

\* The reporter at work under fair scheduling: the default reporter, with or
\* without a metric of the application, is started once and requests are
\* served at any time. The loop goroutine takes its next step as long as it
\* has one (the ticker fires, a ValueMap gets the lock, client.Do returns),
\* and so does the goroutine serving a request.
NextFlush ==
    \/ RegisterLog
    \/ Initialise
    \/ AddMetric
    \/ \E g \in Loops : StartOnce(g) \/ LoopSelect(g) \/ sendMetrics(g)
    \/ \E t \in HandlerThreads : ServeTimed(t)

FairFlush ==
    /\ \A g \in Loops : WF_vars(LoopSelect(g) \/ sendMetrics(g))
    /\ \A t \in HandlerThreads : WF_vars(OnReqEnd(t) \/ Dispatch(t) \/ Update(t))

SpecFlush == Init /\ [][NextFlush]_vars /\ FairFlush

\* The locks of the accumulators under fair scheduling: any one of the three
\* metrics is constructed over an empty table, so that every request counts
\* for "other", the request goroutines call Update and one goroutine calls
\* ValueMap. A goroutine that has a step
\* takes it, and a goroutine waiting in Lock() gets the lock if it is free
\* again and again (sync.Mutex hands the lock to a waiter that starves).
NextLocks ==
    \/ NewMetric
    \/ \E t \in Threads, kind \in Kinds : CallUpdate(t, kind)
    \/ \E t \in Threads : Update(t)
    \/ \E kind \in Kinds : CallValueMap(0, kind)
    \/ ValueMap(0)

FairLocks ==
    /\ \A t \in Threads : WF_vars(Update(t)) /\ SF_vars(Lock(t))
    /\ WF_vars(ValueMap(0)) /\ SF_vars(VMLock(0))

SpecLocks == Init /\ [][NextLocks]_vars /\ FairLocks

\* ------------------------------------------------------------------ claims
\* what a bag of update events (name, status, ms) holds for one endpoint
Total(b, e) == SumMap([ev \in {x \in DOMAIN b : x.name = e} |-> b[ev]])
Errors(b, e) ==
    SumMap([ev \in {x \in DOMAIN b : x.name = e /\ x.status >= 400} |-> b[ev]])
MsSum(b, e) == SumMap([ev \in {x \in DOMAIN b : x.name = e} |-> b[ev] * ev.ms])
TotalAll(b) == SumMap([ev \in DOMAIN b |-> b[ev]])
ErrorsAll(b) == SumMap([ev \in {x \in DOMAIN b : x.status >= 400} |-> b[ev]])
MsSumAll(b) == SumMap([ev \in DOMAIN b |-> b[ev] * ev.ms])

\* every registered endpoint and the sentinel
Known == DOMAIN DefaultEndpoints \cup {unknownEndpoint}

\* collector c has built the whole map of a ValueMap of this kind and is about
\* to unlock and return it
Returning(c, kind) == sc[c].pc = "vm_unlock" /\ sc[c].kind = kind

\* the threads inside the critical section of an Update of this kind
InCritical(kind) ==
    {t \in Threads : th[t].kind = kind
                     /\ th[t].pc \in {"eload", "estore", "load", "store", "append", "unlock"}}

\* the per-endpoint counts of the map a ReqPerEndpoint.ValueMap is building
Building ==
    LET cs == {c \in Collectors : sc[c].kind = "Req" /\ sc[c].pc \in {"vm_range", "vm_unlock"}}
    IN SumMap([c \in cs |-> PerEndpointSum(sc[c].metrics)])

\* the Update calls on ReqPerEndpoint that wrote their count and have not
\* unlocked yet
Written == Cardinality({t \in Threads : th[t].kind = "Req" /\ th[t].pc = "unlock"})

\* C1: no update of ReqPerEndpoint is lost or counted twice. The counts
\* returned by all ValueMap calls so far, plus the counts of a map being built,
\* plus the counts held in reqCount, are the Update calls that have written
\* their count; with the lock free that is the number of completed Update calls.
C1_NoUpdateLostOrDoubled ==
    /\ hist.reported + Building + SumMap(reqCount["Req"]) = hist.applied["Req"] + Written
    /\ lock["Req"] = 0 =>
         hist.reported + SumMap(reqCount["Req"]) = hist.applied["Req"]

\* two collects and three updates interleaved: a first ValueMap has returned
\* counts, a second one holds the lock while an Update waits for it
C1_Witness ==
    /\ hist.reported >= 1
    /\ hist.applied["Req"] >= 2
    /\ lock["Req"] = CollectorId(0)
    /\ \E t \in Threads : th[t].kind = "Req" /\ th[t].pc = "lock"

\* C2: a fault during a tick never ends the loop: whenever the last tick of a
\* loop goroutine met a fault, the goroutine is still running.
C2_LoopSurvivesFault ==
    \A g \in Loops : sc[g].fault # "none" => loop[g] = "Running"

\* C3: once the application asked for the reporter to stop, no further tick
\* fires.
C3_NoTickAfterStop ==
    [][net.stopWanted => \A g \in Loops : sc'[g].ticks = sc[g].ticks]_vars

\* the earliest registered name whose matcher accepts the path, "other"
\* without one
RECURSIVE FirstRegistered(_, _)
FirstRegistered(order, urlPath) ==
    IF order = <<>> THEN unknownEndpoint
    ELSE IF HasPrefix(urlPath, DefaultEndpoints[Head(order)]) THEN Head(order)
    ELSE FirstRegistered(Tail(order), urlPath)

\* the threads that hold the result of endpointFromURL
Classified ==
    {t \in Threads : th[t].pc \in {"lock", "eload", "estore", "load", "store",
                                   "append", "unlock"}}

\* C4: endpointFromURL returns the name of the earliest registered matcher
\* that accepts the path.
C4_FirstRegisteredWins ==
    \A t \in Classified : th[t].name = FirstRegistered(regOrder, th[t].path)

\* C5: the result of endpointFromURL is a registered name or "other", it is
\* "other" for a path no matcher accepts, and the classification step changes
\* neither the accumulators nor the endpoint table.
C5_UnmatchedIsOther ==
    /\ [](\A t \in Classified :
            /\ th[t].name \in Known
            /\ Matching(DefaultEndpoints, th[t].path) = {} => th[t].name = unknownEndpoint)
    /\ [][\A t \in Threads :
            th[t].pc = "classify" /\ th'[t].pc # "classify" =>
                UNCHANGED <<accVars, DefaultEndpoints, lock>>]_vars

\* a path accepted by no matcher of a table that is not empty got "other"
C5_Witness ==
    \E t \in Classified :
        /\ DOMAIN DefaultEndpoints # {}
        /\ Matching(DefaultEndpoints, th[t].path) = {}
        /\ th[t].name = unknownEndpoint

\* C6: the map ReqPerEndpoint.ValueMap returns holds, for every registered
\* endpoint and for "other", the number of Update calls classified to it since
\* the previous collect: N for the endpoint that got N updates, 0 for the rest.
C6_CountPerEndpoint ==
    \A c \in Collectors : Returning(c, "Req") =>
        \A e \in Known :
            /\ MetricName("Req", e) \in DOMAIN sc[c].metrics
            /\ sc[c].metrics[MetricName("Req", e)] = Float(Total(sc[c].seen, e))

\* two updates went to "log" and none elsewhere, with "logx" registered too
C6_Witness ==
    \E c \in Collectors :
        /\ Returning(c, "Req")
        /\ DOMAIN DefaultEndpoints = {"log", "logx"}
        /\ Total(sc[c].seen, "log") = 2
        /\ TotalAll(sc[c].seen) = 2
        /\ sc[c].metrics[MetricName("Req", "log")] = Float(2)
        /\ sc[c].metrics[MetricName("Req", "logx")] = Float(0)
        /\ sc[c].metrics[MetricName("Req", unknownEndpoint)] = Float(0)

\* C7: in the map ReqPerEndpoint.ValueMap returns, "overall" is the sum of the
\* per-endpoint values; when it returns every counter is zero; and from its
\* first read to its return it holds the lock and no Update is inside its own
\* critical section.
C7_OverallIsSumAndReset ==
    \A c \in Collectors :
        /\ Returning(c, "Req") =>
             /\ sc[c].metrics[OverallName("Req")] = Float(PerEndpointSum(sc[c].metrics))
             /\ \A e \in DOMAIN reqCount["Req"] : reqCount["Req"][e] = 0
        /\ sc[c].kind = "Req" /\ sc[c].pc \in {"vm_range", "vm_unlock"} =>
             /\ lock["Req"] = CollectorId(c)
             /\ InCritical("Req") = {}

\* a map with overall 2 over two endpoints is about to be returned while an
\* Update waits for the lock
C7_Witness ==
    \E c \in Collectors :
        /\ Returning(c, "Req")
        /\ "log" \in DOMAIN DefaultEndpoints
        /\ sc[c].metrics[OverallName("Req")] = Float(2)
        /\ sc[c].metrics[MetricName("Req", "log")] = Float(1)
        /\ sc[c].metrics[MetricName("Req", unknownEndpoint)] = Float(1)
        /\ \E t \in Threads : th[t].kind = "Req" /\ th[t].pc = "lock"

\* the error rate of a bag of events for one endpoint
RateOf(b, e) == IF Total(b, e) = 0 THEN Float(0) ELSE Div(Errors(b, e), Total(b, e))

\* C8: ErrorRatePerEndpoint counts every update in the total of its endpoint
\* and as an error exactly when its status is >= 400; ValueMap reports
\* errors/total for every endpoint, and 0 under its key for an endpoint
\* without updates.
C8_ErrorRatePerEndpoint ==
    /\ lock["Err"] = 0 =>
         \A e \in Known :
             /\ Get(reqCount["Err"], e) = Total(hist.log["Err"], e)
             /\ Get(errorCount, e) = Errors(hist.log["Err"], e)
    /\ \A c \in Collectors : Returning(c, "Err") =>
         \A e \in Known :
             /\ MetricName("Err", e) \in DOMAIN sc[c].metrics
             /\ sc[c].metrics[MetricName("Err", e)] = RateOf(sc[c].seen, e)

\* "log" got one update with status 399 and one with status 400 and reports
\* 1/2; "other" got none and reports 0
C8_Witness ==
    \E c \in Collectors :
        /\ Returning(c, "Err")
        /\ Get(sc[c].seen, [name |-> "log", status |-> 399, ms |-> 0]) = 1
        /\ Get(sc[c].seen, [name |-> "log", status |-> 400, ms |-> 0]) = 1
        /\ sc[c].metrics[MetricName("Err", "log")] = <<1, 2>>
        /\ Total(sc[c].seen, unknownEndpoint) = 0
        /\ sc[c].metrics[MetricName("Err", unknownEndpoint)] = Float(0)

\* C9: the overall error rate ErrorRatePerEndpoint.ValueMap returns is the
\* errors of all endpoints over the updates of all endpoints, 0 without
\* updates.
C9_OverallIsPooled ==
    \A c \in Collectors : Returning(c, "Err") =>
        sc[c].metrics[OverallName("Err")] =
            IF TotalAll(sc[c].seen) = 0 THEN Float(0)
            ELSE Div(ErrorsAll(sc[c].seen), TotalAll(sc[c].seen))

\* uneven traffic: "log" 1 error of 1, "other" 0 errors of 2; the pooled rate
\* is 1/3 while the per-endpoint rates are 1 and 0, whose mean is 1/2
C9_Witness ==
    \E c \in Collectors :
        /\ Returning(c, "Err")
        /\ DOMAIN DefaultEndpoints = {"log"}
        /\ sc[c].metrics[MetricName("Err", "log")] = Float(1)
        /\ sc[c].metrics[MetricName("Err", unknownEndpoint)] = Float(0)
        /\ Total(sc[c].seen, unknownEndpoint) = 2
        /\ sc[c].metrics[OverallName("Err")] = <<1, 3>>

\* the average of a bag of events for one endpoint
AverageOf(b, e) == IF Total(b, e) = 0 THEN Float(0) ELSE Div(MsSum(b, e), Total(b, e))

\* C10: ResponseTimePerEndpoint.ValueMap reports for every endpoint the sum of
\* the elapsed times recorded since the previous collect over their count (0
\* without samples) and for "overall" the sum over all endpoints over the
\* count over all endpoints; the samples 1, 2, 1, 2 (tenths of a millisecond)
\* after the placeholder give 3/2.
C10_AverageResponseTime ==
    /\ RTAverage(SumSeq(<<0, 1, 2, 1, 2>>), 4) = <<3, 2>>
    /\ RTOverall(SumSeq(<<0, 1, 2, 1, 2>>), 4) = <<3, 2>>
    /\ \A c \in Collectors : Returning(c, "RT") =>
         /\ \A e \in Known :
              /\ MetricName("RT", e) \in DOMAIN sc[c].metrics
              /\ sc[c].metrics[MetricName("RT", e)] = AverageOf(sc[c].seen, e)
         /\ sc[c].metrics[OverallName("RT")] =
              IF TotalAll(sc[c].seen) = 0 THEN Float(0)
              ELSE Div(MsSumAll(sc[c].seen), TotalAll(sc[c].seen))

\* "log" got the samples 1 and 2 and "other" the sample 2: 3/2 for "log", 2
\* for "other", 5/3 overall
C10_Witness ==
    \E c \in Collectors :
        /\ Returning(c, "RT")
        /\ Get(sc[c].seen, [name |-> "log", status |-> 399, ms |-> 1]) = 1
        /\ Get(sc[c].seen, [name |-> "log", status |-> 399, ms |-> 2]) = 1
        /\ Get(sc[c].seen, [name |-> unknownEndpoint, status |-> 399, ms |-> 2]) = 1
        /\ sc[c].metrics[MetricName("RT", "log")] = <<3, 2>>
        /\ sc[c].metrics[MetricName("RT", unknownEndpoint)] = Float(2)
        /\ sc[c].metrics[OverallName("RT")] = <<5, 3>>

\* every value of a map returned by ValueMap is zero
AllZero(metrics) == \A k \in DOMAIN metrics : metrics[k] = Float(0)

\* C11: draining twice returns zeros. For each of the three accumulators, a
\* ValueMap that follows an earlier ValueMap with no Update completed in
\* between returns 0 under every key, "overall" included, and leaves every
\* counter and every sample list as the constructor made it.
C11_SecondDrainIsZero ==
    \A c \in Collectors, kind \in Kinds :
        Returning(c, kind) /\ hist.collects >= 2 /\ sc[c].seen = EmptyMap =>
            /\ AllZero(sc[c].metrics)
            /\ OverallName(kind) \in DOMAIN sc[c].metrics
            /\ \A e \in DOMAIN reqCount[kind] : reqCount[kind][e] = 0
            /\ kind = "Err" => \A e \in DOMAIN errorCount : errorCount[e] = 0
            /\ kind = "RT" => \A e \in DOMAIN responseTime : responseTime[e] = <<0>>

\* updates were recorded and drained by a first ValueMap; a second ValueMap
\* with no Update in between is about to return
C11_Witness ==
    \E c \in Collectors :
        /\ Returning(c, "RT")
        /\ hist.collects = 2
        /\ hist.applied["RT"] >= 2
        /\ sc[c].seen = EmptyMap
        /\ sc[c].metrics[OverallName("RT")] = Float(0)

\* the keys a ValueMap of this kind is expected to return: one per registered
\* endpoint, one for "other" and the overall key
ExpectedKeys(kind) == {MetricName(kind, e) : e \in Known} \cup {OverallName(kind)}

\* C12: key completeness at construction. For each of the three accumulators,
\* a ValueMap called before any Update returns exactly one key per registered
\* endpoint, one for "other" and the overall key, every one with the value 0.
C12_KeysAtConstruction ==
    \A c \in Collectors, kind \in Kinds :
        Returning(c, kind) /\ hist.calls = 0 =>
            /\ DOMAIN sc[c].metrics = ExpectedKeys(kind)
            /\ Cardinality(DOMAIN sc[c].metrics) = Cardinality(DOMAIN DefaultEndpoints) + 2
            /\ AllZero(sc[c].metrics)

\* the error rate accumulator built over the single endpoint "log" returns
\* three keys before any Update
C12_Witness ==
    \E c \in Collectors :
        /\ Returning(c, "Err")
        /\ hist.calls = 0
        /\ DOMAIN DefaultEndpoints = {"log"}
        /\ Cardinality(DOMAIN sc[c].metrics) = 3
        /\ sc[c].metrics[MetricName("Err", "log")] = Float(0)
        /\ sc[c].metrics[MetricName("Err", unknownEndpoint)] = Float(0)

\* C13: key-set stability. For each of the three accumulators and every
\* sequence of Update and ValueMap calls, every ValueMap returns the same key
\* set (every registered endpoint, "other" and overall), also for endpoints
\* without traffic, and reqCount, errorCount and responseTime hold an entry
\* for every registered endpoint and for "other" at all times.
C13_KeySetStable ==
    /\ \A c \in Collectors, kind \in Kinds :
          Returning(c, kind) => DOMAIN sc[c].metrics = ExpectedKeys(kind)
    /\ \A kind \in built : DOMAIN reqCount[kind] = Known
    /\ "Err" \in built => DOMAIN errorCount = Known
    /\ "RT" \in built => DOMAIN responseTime = Known

\* a second ValueMap of the response time accumulator, after updates that all
\* went to "other": "log" and "logx" had no traffic and are reported
C13_Witness ==
    \E c \in Collectors :
        /\ Returning(c, "RT")
        /\ hist.collects = 2
        /\ hist.applied["RT"] >= 1
        /\ DOMAIN DefaultEndpoints = {"log", "logx"}
        /\ Total(sc[c].seen, unknownEndpoint) = TotalAll(sc[c].seen)
        /\ Cardinality(DOMAIN sc[c].metrics) = 4
        /\ MetricName("RT", "logx") \in DOMAIN sc[c].metrics

\* C14: a name that is already registered keeps its matcher: no
\* AddDefaultEndpoint call replaces the matcher registered under a name.
C14_NoOverwrite ==
    [][\A n \in DOMAIN DefaultEndpoints :
          n \in DOMAIN DefaultEndpoints' /\ DefaultEndpoints'[n] = DefaultEndpoints[n]]_vars

\* C15: InitDefaultReporter called while no endpoint is registered returns an
\* error and no reporter, whatever the application name and the licence.
C15_NoEndpointsFails ==
    hist.init.called /\ hist.init.endpoints = 0 =>
        /\ hist.init.err # ErrNil
        /\ hist.init.retNil

\* a call with a licence and a host name but an empty table returned the
\* error about the endpoints
C15_Witness ==
    /\ hist.init.called
    /\ hist.init.endpoints = 0
    /\ hist.init.licence = "key"
    /\ hist.init.hostOK
    /\ hist.init.err = ErrEndpoints
    /\ hist.init.retNil

\* a reporter that lacks the three standard metrics
Partial(reporter) == ~reporter.isNil /\ Len(reporter.metrics) < Len(StandardMetrics)

\* C16: an InitDefaultReporter call that returns an error leaves no partly
\* constructed reporter in SimpleReporter and does not replace a reporter
\* installed before.
C16_NoPartialReporter ==
    [][hist'.init # hist.init /\ hist'.init.err # ErrNil =>
          /\ ~Partial(SimpleReporter')
          /\ ~SimpleReporter.isNil => SimpleReporter' = SimpleReporter]_vars

\* C17: the licence is required. A call with an empty licence returns an
\* error and a nil reporter, from NewReporter and from InitDefaultReporter;
\* NewReporter with a licence and a host name returns a reporter and no error.
C17_LicenceRequired ==
    hist.init.called =>
        /\ hist.init.licence = "" =>
              /\ hist.init.newNil /\ hist.init.newErr # ErrNil
              /\ hist.init.retNil /\ hist.init.err # ErrNil
        /\ hist.init.licence # "" /\ hist.init.hostOK =>
              /\ ~hist.init.newNil /\ hist.init.newErr = ErrNil

\* a call without a licence on a machine with a host name and a registered
\* endpoint returned the error about the licence
C17_Witness ==
    /\ hist.init.called
    /\ hist.init.licence = ""
    /\ hist.init.hostOK
    /\ hist.init.endpoints >= 1
    /\ hist.init.newErr = ErrLicence
    /\ hist.init.err = ErrLicence
    /\ SimpleReporter.isNil

\* C18: dispatch isolates the failure of one accumulator. onReqEndHandler
\* calls Update on the metrics of the reporter in the order they were added,
\* and when the Update of one of them panics, every metric added after it
\* still gets the request.
C18_DispatchIsolatesFailure ==
    \A t \in Threads : th[t].mi > 0 =>
        /\ th[t].got \in {1..(th[t].mi - 1), 1..th[t].mi}
        /\ th[t].pc = "panicked" =>
              \A i \in (th[t].mi + 1)..Len(SimpleReporter.metrics) : i \in th[t].got

\* the request threads that are back in the loop of onReqEndHandler after the
\* Update of ResponseTimePerEndpoint returned for a context without a start
\* time
AfterSkippedRT ==
    {t \in Threads : /\ th[t].pc = "dispatch"
                     /\ th[t].mi > 1
                     /\ th[t].mi - 1 <= Len(SimpleReporter.metrics)
                     /\ SimpleReporter.metrics[th[t].mi - 1] = "RT"
                     /\ ~th[t].hasStart}

\* C19: for a context without "reqStartTime" the Update of
\* ResponseTimePerEndpoint returns without a fault and leaves its reqCount and
\* responseTime as they were, while ReqPerEndpoint and ErrorRatePerEndpoint
\* have recorded the same request.
C19_MissingStartIsSkipped ==
    /\ [](\A t \in AfterSkippedRT :
            /\ th[t].got = {1, 2, 3}
            /\ th[t].rec = {1, 2}
            /\ hist.applied["Req"] > hist.applied["RT"]
            /\ hist.applied["Err"] > hist.applied["RT"])
    /\ [][\A t \in Threads :
            th[t].pc = "getStart" /\ ~th[t].hasStart /\ th'[t] # th[t] =>
                /\ reqCount'["RT"] = reqCount["RT"]
                /\ responseTime' = responseTime
                /\ th'[t].pc # "panicked"]_vars

\* a request to /log without a start time went through the three standard
\* metrics: one request counted by ReqPerEndpoint and ErrorRatePerEndpoint,
\* none by ResponseTimePerEndpoint
C19_Witness ==
    \E t \in AfterSkippedRT :
        /\ th[t].rec = {1, 2}
        /\ Get(reqCount["Req"], "log") = 1
        /\ Get(reqCount["Err"], "log") = 1
        /\ SumMap(reqCount["RT"]) = 0
        /\ responseTime["log"] = <<0>>

\* C20: no fault of the metrics code reaches the request path: no request
\* passing through Handler ends in a panic of onReqStartHandler or
\* onReqEndHandler, whatever the state of the default reporter.
C20_NoFaultInRequestPath ==
    \A t \in Threads : th[t].pc # "panicked"

\* the ticks fired by all loops
TicksFired == SumMap([g \in Loops |-> sc[g].ticks])

\* C21: a failed transmission is not retried and what it carried is gone. No
\* more transmissions are attempted than ticks fired; the return of a
\* transmission, failed or not, writes no accumulator; and the map each
\* ValueMap of a tick returns holds only the updates recorded since the
\* previous collect of that accumulator.
C21_NoRetryNoRestore ==
    /\ [](net.attempts <= TicksFired)
    /\ [][\A g \in Loops :
            sc[g].pc = "sm_resp" /\ sc'[g].pc # "sm_resp" =>
                /\ UNCHANGED accVars
                /\ net'.attempts = net.attempts
                /\ sc'[g].pc = "select"]_vars
    /\ [](\A g \in Loops, e \in Known :
            /\ Returning(g, "Req") =>
                  sc[g].metrics[MetricName("Req", e)] = Float(Total(sc[g].seen, e))
            /\ Returning(g, "Err") =>
                  sc[g].metrics[MetricName("Err", e)] = RateOf(sc[g].seen, e)
            /\ Returning(g, "RT") =>
                  sc[g].metrics[MetricName("RT", e)] = AverageOf(sc[g].seen, e))

\* the first tick drained one request and its transmission failed; the
\* second tick is about to return a request count of zero
C21_Witness ==
    \E g \in Loops :
        /\ Returning(g, "Req")
        /\ sc[g].ticks = 2
        /\ net.failures >= 1
        /\ hist.reported = 1
        /\ hist.applied["Req"] = 1
        /\ sc[g].metrics[OverallName("Req")] = Float(0)

\* the loops that hold the payload of a tick
WithPayload == {g \in Loops : sc[g].pc \in {"sm_next", "vm_lock", "vm_range", "vm_unlock",
                                             "custom_vm", "sm_merge", "sm_marshal"}}

\* C22: the identity of the reporter does not change after construction. The
\* guid of the reporter is the value Guid had when NewReporter ran, host and
\* pid are what the process reported then, every payload carries these three
\* values, and an assignment to Guid changes neither the reporter nor a payload.
C22_IdentityImmutable ==
    /\ [](~SimpleReporter.isNil =>
            /\ SimpleReporter.guid = hist.init.guid
            /\ SimpleReporter.host = osHostname
            /\ SimpleReporter.pid = osGetpid)
    /\ [](\A g \in WithPayload :
            /\ sc[g].payload.guid = hist.init.guid
            /\ sc[g].payload.host = SimpleReporter.host
            /\ sc[g].payload.pid = SimpleReporter.pid)
    /\ [][Guid' # Guid =>
            /\ SimpleReporter' = SimpleReporter
            /\ \A g \in Loops : sc'[g].payload = sc[g].payload]_vars

\* Guid was assigned before the reporter was constructed and assigned again
\* afterwards: the payload of the second tick carries the first value
C22_Witness ==
    \E g \in WithPayload :
        /\ sc[g].ticks = 2
        /\ hist.init.guid = "com.example.plugin"
        /\ Guid = defaultGUID
        /\ sc[g].payload.guid = "com.example.plugin"

\* a float32 between 0 and 1
InUnitInterval(v) == v[2] > 0 /\ 0 <= v[1] /\ v[1] <= v[2]

\* C23: a collect never sees half of an ErrorRatePerEndpoint update. Whenever
\* the lock of the accumulator is free, errorCount[e] <= reqCount[e] for every
\* endpoint, and every ratio ValueMap returns, per endpoint and overall, lies
\* between 0 and 1.
C23_NeverTorn ==
    /\ lock["Err"] = 0 =>
          \A e \in DOMAIN errorCount \cup DOMAIN reqCount["Err"] :
              Get(errorCount, e) <= Get(reqCount["Err"], e)
    /\ \A c \in Collectors : Returning(c, "Err") =>
          \A k \in DOMAIN sc[c].metrics : InUnitInterval(sc[c].metrics[k])

\* an update with status 400 has written errorCount and not yet reqCount
\* while a ValueMap waits for the lock
C23_Witness ==
    \E t \in Threads, c \in Collectors :
        /\ th[t].kind = "Err"
        /\ th[t].pc = "load"
        /\ Get(errorCount, th[t].name) > Get(reqCount["Err"], th[t].name)
        /\ sc[c].kind = "Err"
        /\ sc[c].pc = "vm_lock"

\* the loops that are inside sendMetrics
Sending == {g \in Loops : sc[g].pc \notin {"idle", "select", "returned"}}

\* C24: one reporter never has more than one loop. However often Start is
\* called, at most one loop goroutine runs and at most one sendMetrics of the
\* reporter is under way.
C24_SingleLoop ==
    /\ Cardinality({g \in Loops : loop[g] = "Running"}) <= 1
    /\ Cardinality(Sending) <= 1

\* the loops that are serializing or transmitting the payload of a tick
Transmitting == {g \in Loops : sc[g].pc \in {"sm_marshal", "sm_send", "sm_resp"}}

\* C25: the transmission happens off the accumulator locks. When a loop
\* serializes and transmits, the ValueMap of every metric of the reporter has
\* returned and the loop holds no accumulator lock; while a transmission is
\* under way no lock is held by a loop, so an Update waits for no transmission.
C25_SendOffTheLocks ==
    /\ \A g \in Transmitting :
          /\ sc[g].mi > Len(SimpleReporter.metrics)
          /\ \A kind \in Kinds : lock[kind] # CollectorId(g)
    /\ net.inFlight > 0 =>
          \A kind \in Kinds, g \in Loops : lock[kind] # CollectorId(g)
    /\ net.inFlight = Cardinality({g \in Loops : sc[g].pc = "sm_resp"})

\* while the transmission of a tick is under way, an Update of the response
\* time accumulator is inside its critical section
C25_Witness ==
    \E g \in Loops, t \in Threads :
        /\ sc[g].pc = "sm_resp"
        /\ net.inFlight = 1
        /\ th[t].kind = "RT"
        /\ th[t].pc = "append"
        /\ lock["RT"] = ThreadId(t)

\* the loops between the tick and the transmission of its payload
Preparing == {g \in Sending : sc[g].pc # "sm_resp"}

\* C26: a loop works its ticks off one after the other. Every tick fired has
\* made its one transmission attempt or is still preparing it, a loop that is
\* transmitting has fired no further tick, and no more transmissions are
\* under way than loops are running.
C26_TicksInSequence ==
    /\ TicksFired - net.attempts = Cardinality(Preparing)
    /\ net.inFlight <= Cardinality({g \in Loops : loop[g] = "Running"})
    /\ net.attempts - net.inFlight >= 0
    /\ \A g \in Loops : sc[g].pc = "sm_resp" => sc[g].ticks >= 1

\* the transmission of the first tick is still under way; an update recorded
\* after its collect waits in the accumulator and no second tick has fired
C26_Witness ==
    \E g \in Loops :
        /\ sc[g].pc = "sm_resp"
        /\ sc[g].ticks = 1
        /\ net.attempts = 1
        /\ hist.applied["Req"] = 1
        /\ SumMap(reqCount["Req"]) = 1

\* the last of the maps returned in a tick that holds the key k
LastWith(r, k) ==
    CHOOSE i \in 1..Len(r) :
        /\ k \in DOMAIN r[i].map
        /\ \A j \in (i + 1)..Len(r) : k \notin DOMAIN r[j].map

\* C27: the payload of a tick is the union of the maps the metrics of the
\* reporter returned, taken in the order of AddMetric: when the payload is
\* serialized it holds every key any ValueMap returned and nothing else, and
\* under a key two metrics returned it holds the value of the later one.
C27_PayloadIsUnion ==
    \A g \in Loops : sc[g].pc = "sm_marshal" =>
        LET r == sc[g].returned
            p == sc[g].payload.metrics
        IN /\ Len(r) = Len(SimpleReporter.metrics)
           /\ \A i \in 1..Len(r) : r[i].kind = SimpleReporter.metrics[i]
           /\ DOMAIN p = UNION {DOMAIN r[i].map : i \in 1..Len(r)}
           /\ \A k \in DOMAIN p : p[k] = r[LastWith(r, k)].map[k]

\* one request was counted, and the metric of the application returned 7
\* under the overall key of ReqPerEndpoint, which returned 1: the payload
\* holds 7 there and the count of "log" from ReqPerEndpoint
C27_Witness ==
    \E g \in Loops :
        /\ sc[g].pc = "sm_marshal"
        /\ Len(sc[g].returned) = 4
        /\ sc[g].returned[1].map[OverallName("Req")] = Float(1)
        /\ sc[g].returned[4].map = (OverallName("Req") :> Float(7))
        /\ sc[g].payload.metrics[OverallName("Req")] = Float(7)
        /\ sc[g].payload.metrics[MetricName("Req", "log")] = Float(1)

\* C28: ErrorRatePerEndpoint.ValueMap resets everything it accumulated, an
\* endpoint added to the table after the construction included: when it is
\* about to return, every entry of reqCount and of errorCount is 0.
C28_ResetsEverything ==
    Returning(0, "Err") =>
        /\ \A e \in DOMAIN reqCount["Err"] : reqCount["Err"][e] = 0
        /\ \A e \in DOMAIN errorCount : errorCount[e] = 0

\* C29: in ResponseTimePerEndpoint, whenever the lock is free, the list of
\* every endpoint is the zero placeholder followed by as many samples as
\* reqCount counts for it, and these are the samples of the updates completed
\* since the previous collect, so the placeholder adds nothing to the sum the
\* average is taken of.
C29_SamplesMatchCount ==
    ("RT" \in built /\ lock["RT"] = 0) =>
        \A e \in DOMAIN responseTime :
            /\ Len(responseTime[e]) = Get(reqCount["RT"], e) + 1
            /\ responseTime[e][1] = 0
            /\ Get(reqCount["RT"], e) = Total(hist.log["RT"], e)
            /\ SumSeq(responseTime[e]) = MsSum(hist.log["RT"], e)

\* after a collect, "log" holds the placeholder and the samples 1 and 2 of
\* two updates, and the lock is free
C29_Witness ==
    /\ "RT" \in built
    /\ lock["RT"] = 0
    /\ hist.collects >= 1
    /\ sc[0].pc = "idle"
    /\ "log" \in DOMAIN responseTime
    /\ responseTime["log"] \in {<<0, 1, 2>>, <<0, 2, 1>>}
    /\ reqCount["RT"]["log"] = 2
    /\ hist.applied["RT"] = 3

\* the reporter was started and a loop of it has a tick to come
TickToCome ==
    \E g \in Loops : loop[g] # "Idle" /\ sc[g].ticks < MaxTicks

\* C30: every recorded update is eventually flushed: once Start was called,
\* the updates of an accumulator completed since its last collect are
\* collected by the ValueMap of a later tick (as long as the ticker has a
\* tick to fire).
C30_EveryUpdateFlushed ==
    \A k \in Kinds :
        (hist.log[k] # EmptyMap /\ TickToCome) ~> (hist.log[k] = EmptyMap)

\* the positions of an Update and of a ValueMap between Lock() and Unlock()
UpdateCritical == {"eload", "estore", "load", "store", "append", "unlock"}
ValueMapCritical == {"vm_range", "vm_unlock"}

\* the locks a request goroutine and a collecting goroutine hold
HeldByThread(t) == {k \in Kinds : lock[k] = ThreadId(t)}
HeldByCollector(c) == {k \in Kinds : lock[k] = CollectorId(c)}

\* C31: the accumulators cannot deadlock. A goroutine holds a lock exactly
\* while it is between Lock() and Unlock() of an Update or a ValueMap, and
\* then only the lock of the accumulator it is in; every step it takes there
\* needs nothing but the goroutine itself; and under fair scheduling every
\* Update and every ValueMap call that was begun returns.
C31_NoDeadlock ==
    /\ [](\A t \in Threads :
            HeldByThread(t) =
                IF th[t].pc \in UpdateCritical THEN {th[t].kind} ELSE {})
    /\ [](\A c \in Collectors :
            HeldByCollector(c) =
                IF sc[c].pc \in ValueMapCritical THEN {sc[c].kind} ELSE {})
    /\ [](\A t \in Threads : th[t].pc \in UpdateCritical => ENABLED Update(t))
    /\ [](sc[0].pc \in ValueMapCritical => ENABLED ValueMap(0))
    /\ \A t \in Threads : (th[t].pc # "idle") ~> (th[t].pc = "idle")
    /\ (sc[0].pc # "idle") ~> (sc[0].pc = "idle")

\* a ValueMap of the response time accumulator holds the lock and both
\* request goroutines wait for it in Lock()
C31_Witness ==
    /\ lock["RT"] = CollectorId(0)
    /\ sc[0].pc = "vm_range"
    /\ \A t \in Threads : th[t].kind = "RT" /\ th[t].pc = "lock"

====
